---- MODULE Spec2Model ----
(***************************************************************************)
(* Model of portfolio.py: portfolio_performance, simulate_portfolios,      *)
(* get_optimal_portfolio and the __main__ flow.                            *)
(*                                                                         *)
(* Numbers.  A float of the program is modelled exactly:                   *)
(*   [k |-> "fin",  q |-> r]   the rational r                              *)
(*   [k |-> "sqrt", q |-> r]   sign(r) * sqrt(|r|)  (a volatility, a Sharpe)*)
(*   [k |-> "inf",  q |-> +-1] plus or minus infinity                      *)
(*   [k |-> "nan",  q |-> 0]   NaN                                         *)
(* with r a reduced fraction [n |-> numerator, d |-> denominator > 0].     *)
(* numpy arithmetic does not raise on x/0: it yields inf or nan.           *)
(* Rounding of binary floating point is not modelled.                      *)
(***************************************************************************)
EXTENDS Integers, Sequences, FiniteSets, TLC

VARIABLES
    pc,               \* position of the running flow
    tickers,          \* the requested ticker list
    columns,          \* the column labels of the return table, in table order
    returns,          \* the return table
    num_simulations,  \* argument of simulate_portfolios
    i,                \* iterations of the sampling loop completed
    weights,          \* weights argument of the latest portfolio_performance call
    results,          \* the 3 x num_simulations array, as a sequence of columns
    weights_record,   \* the list of recorded weight vectors
    outcome,          \* how the latest call ended: a return or a raise
    solver_args,      \* what minimize was called with
    solve_calls,      \* number of minimize calls made
    result,           \* the OptimizeResult of the latest minimize call
    optimal_weights,  \* what get_optimal_portfolio returned to its caller
    report            \* what __main__ printed and what the plot labelled

vars == <<pc, tickers, columns, returns, num_simulations, i, weights, results,
          weights_record, outcome, solver_args, solve_calls, result,
          optimal_weights, report>>

-----------------------------------------------------------------------------
(* Bounds of the model *)

\* number of return rows of a table (a table of 1 row is modelled too)
MaxRows == 3
\* a uniform draw is k/(MaxDraw+1) for k in 0..MaxDraw: a value of [0,1)
MaxDraw == 1
\* largest num_simulations passed to simulate_portfolios
MaxSims == 2
\* weights handed to portfolio_performance directly are k/WeightGrid
WeightGrid == 2
\* num_simulations of the __main__ flow, standing for the default of 5000
MainSims == 1

\* annualisation factor of portfolio_performance
TradingDays == 252

-----------------------------------------------------------------------------
(* Exact rational arithmetic *)

Abs(x) == IF x < 0 THEN -x ELSE x

Sign(x) == IF x < 0 THEN -1 ELSE IF x = 0 THEN 0 ELSE 1

RECURSIVE GCD(_, _)
GCD(a, b) == IF b = 0 THEN a ELSE GCD(b, a % b)

\* the reduced fraction n/d, d # 0
Rat(n, d) ==
    LET g == GCD(Abs(n), Abs(d))
    IN  [n |-> Sign(d) * (n \div g), d |-> Abs(d) \div g]

\* over the least common denominator
RatAdd(a, b) ==
    LET g == GCD(a.d, b.d)
    IN  Rat(a.n * (b.d \div g) + b.n * (a.d \div g), (a.d \div g) * b.d)

RatNeg(a) == [n |-> -a.n, d |-> a.d]

RatSub(a, b) == RatAdd(a, RatNeg(b))

\* cross-reduced product of two reduced fractions
RatMul(a, b) ==
    LET g1 == GCD(Abs(a.n), b.d)
        g2 == GCD(Abs(b.n), a.d)
    IN  IF a.n = 0 \/ b.n = 0 THEN [n |-> 0, d |-> 1]
        ELSE [n |-> (a.n \div g1) * (b.n \div g2),
              d |-> (a.d \div g2) * (b.d \div g1)]

\* a / b for b # 0
RatDiv(a, b) == RatMul(a, [n |-> Sign(b.n) * b.d, d |-> Abs(b.n)])

Zero == [n |-> 0, d |-> 1]

One == [n |-> 1, d |-> 1]

(* Floats *)

Fin(r) == [k |-> "fin", q |-> r]

NaN == [k |-> "nan", q |-> Zero]

Inf(s) == [k |-> "inf", q |-> [n |-> s, d |-> 1]]

IsFinite(v) == v.k \in {"fin", "sqrt"}

\* x / y of two rationals as numpy divides them: no exception on y = 0
NpDivide(x, y) ==
    IF y.n = 0 THEN (IF x.n = 0 THEN NaN ELSE Inf(Sign(x.n))) ELSE Fin(RatDiv(x, y))

\* np.sqrt of a float holding a rational
NpSqrt(v) ==
    IF v.k = "nan" THEN NaN
    ELSE IF v.k = "inf" THEN (IF v.q.n > 0 THEN v ELSE NaN)
    ELSE IF v.q.n < 0 THEN NaN
    ELSE [k |-> "sqrt", q |-> v.q]

\* ret / vol for a rational ret and a volatility vol = sqrt(vol.q)
DivideBySqrt(ret, vol) ==
    IF ret.k # "fin" \/ vol.k # "sqrt" THEN NaN
    ELSE IF vol.q.n = 0
         THEN (IF ret.q.n = 0 THEN NaN ELSE Inf(Sign(ret.q.n)))
    ELSE LET sq == RatDiv(RatMul(ret.q, ret.q), vol.q)
         IN  [k |-> "sqrt", q |-> [n |-> Sign(ret.q.n) * sq.n, d |-> sq.d]]

\* unary minus of a float
Negate(v) == IF v.k = "nan" THEN NaN ELSE [k |-> v.k, q |-> RatNeg(v.q)]

-----------------------------------------------------------------------------
(* Return tables.  A table is a sequence of columns (one per asset), each a *)
(* sequence of daily fractional returns, all of one length.  A return is    *)
(* held as an integer count of half-percents: r stands for r/200.           *)

\* the value one count stands for, 0.005
Unit == [n |-> 1, d |-> 200]

\* the daily pattern of asset A, 0.01, 0.02, -0.01, 0.015 repeating
PatternA == <<2, 4, -2, 3>>

\* another asset's pattern
PatternD == <<1, -1, 3, 0>>

Cycle(p, t) == p[((t - 1) % Len(p)) + 1]

\* asset A, its negative, a constant-zero asset, asset D
SeriesPool(T) ==
    << [t \in 1..T |-> Cycle(PatternA, t)],
       [t \in 1..T |-> -Cycle(PatternA, t)],
       [t \in 1..T |-> 0],
       [t \in 1..T |-> Cycle(PatternD, t)] >>

\* the tables of N assets: N consecutive series of the pool, T rows
ReturnTables(N) ==
    { [c \in 1..N |-> Cycle(SeriesPool(T), s + c - 1)] :
        s \in 1..Len(SeriesPool(1)), T \in {1, MaxRows} }

Rows(tbl) == Len(tbl[1])

-----------------------------------------------------------------------------
(* pandas statistics of the table *)

RECURSIVE RatSum(_)
RatSum(seq) ==
    IF seq = <<>> THEN Zero ELSE RatAdd(Head(seq), RatSum(Tail(seq)))

RECURSIVE SumTo(_, _)
SumTo(f, n) == IF n = 0 THEN 0 ELSE f[n] + SumTo(f, n - 1)

\* returns.mean(): the mean of one column
Mean(col) == RatMul(Rat(SumTo(col, Len(col)), Len(col)), Unit)

\* returns.cov(): sample covariance of two columns, for at least 2 rows,
\* sum((x - mean x)(y - mean y)) / (T - 1) = (T sum(xy) - sum(x) sum(y)) / (T (T - 1))
Cov(x, y) ==
    LET T == Len(x)
        sxy == SumTo([t \in 1..T |-> x[t] * y[t]], T)
    IN  RatMul(Rat(T * sxy - SumTo(x, T) * SumTo(y, T), T * (T - 1)),
               RatMul(Unit, Unit))

Annual == [n |-> TradingDays, d |-> 1]

-----------------------------------------------------------------------------
(* portfolio_performance *)

Return(v) == [kind |-> "return", value |-> v, error |-> "none"]

Raise(e) == [kind |-> "raise", value |-> <<>>, error |-> e]

NoOutcome == [kind |-> "none", value |-> <<>>, error |-> "none"]

AllFinite(w) == \A a \in 1..Len(w) : w[a].k = "fin"

\* np.sum(returns.mean() * weights) * 252
annual_return(w, tbl) ==
    IF ~AllFinite(w) THEN NaN
    ELSE Fin(RatMul(RatSum([a \in 1..Len(w) |-> RatMul(Mean(tbl[a]), w[a].q)]),
                    Annual))

\* np.dot(weights.T, np.dot(returns.cov() * 252, weights))
annual_variance(w, tbl) ==
    IF ~AllFinite(w) \/ Rows(tbl) < 2 THEN NaN
    ELSE LET N == Len(w)
             inner == [a \in 1..N |->
                         RatSum([b \in 1..N |->
                            RatMul(RatMul(Cov(tbl[a], tbl[b]), Annual), w[b].q)])]
         IN  Fin(RatSum([a \in 1..N |-> RatMul(w[a].q, inner[a])]))

annual_volatility(w, tbl) == NpSqrt(annual_variance(w, tbl))

\* annual_return / annual_volatility
sharpe_ratio(ret, vol) == DivideBySqrt(ret, vol)

\* the triple of a weight vector as long as the table is wide
PerformanceTriple(w, tbl) ==
    LET ret == annual_return(w, tbl)
        vol == annual_volatility(w, tbl)
    IN  <<ret, vol, sharpe_ratio(ret, vol)>>

\* a vector of another length makes the pandas/numpy arithmetic raise ValueError
portfolio_performance(w, tbl) ==
    IF Len(w) # Len(tbl) THEN Raise("ValueError")
    ELSE Return(PerformanceTriple(w, tbl))

-----------------------------------------------------------------------------
(* Inputs *)

\* tickers of __main__
Tickers == <<"AAPL", "GLD", "AGG">>

\* ticker lists of 1, 2 and 3 assets (a table has at least one column)
TickerLists == { SubSeq(Tickers, 1, n) : n \in 1..Len(Tickers) }

\* the tickers by name
Alphabetical == <<"AAPL", "AGG", "GLD">>

InList(tks, t) == \E a \in 1..Len(tks) : tks[a] = t

\* the orders in which the data provider may arrange the columns of tks:
\* as requested, or sorted by ticker name
ColumnOrders(tks) == { tks, SelectSeq(Alphabetical, LAMBDA t : InList(tks, t)) }

\* np.random.random(num_assets): every vector of values k/(MaxDraw+1) of [0,1)
Draws(N) == [1..N -> { Rat(k, MaxDraw + 1) : k \in 0..MaxDraw }]

\* weight vectors a caller may hand to portfolio_performance: any length up to
\* the ticker count, components from -1/WeightGrid to 1 + 1/WeightGrid
WeightInputs ==
    UNION { [1..L -> { Fin(Rat(k, WeightGrid)) : k \in -1..(WeightGrid + 1) }] :
              L \in 1..Len(Tickers) }

NoReport == [lines |-> <<>>, opt |-> <<>>, label |-> <<>>]

NoResult == [x |-> <<>>, success |-> FALSE, fun |-> NaN]

NoArgs == [x0 |-> <<>>, method |-> "none", bounds |-> <<>>, constraints |-> <<>>]

\* what every flow starts from, before its inputs are set
Blank ==
    /\ i = 0
    /\ weights = <<>>
    /\ results = <<>>
    /\ weights_record = <<>>
    /\ outcome = NoOutcome
    /\ solver_args = NoArgs
    /\ solve_calls = 0
    /\ result = NoResult
    /\ optimal_weights = <<>>
    /\ report = NoReport

-----------------------------------------------------------------------------
(* portfolio_performance called directly *)

PerformanceCall ==
    /\ pc = "caller"
    /\ \E w \in WeightInputs :
          /\ weights' = w
          /\ outcome' = portfolio_performance(w, returns)
    /\ pc' = "called"
    /\ UNCHANGED <<tickers, columns, returns, num_simulations, i, results,
                   weights_record, solver_args, solve_calls, result,
                   optimal_weights, report>>

InitPerf ==
    /\ pc = "caller"
    /\ tickers \in TickerLists
    /\ columns = tickers
    /\ returns \in ReturnTables(Len(tickers))
    /\ num_simulations = 0
    /\ Blank

NextPerf == PerformanceCall

SpecPerf == InitPerf /\ [][NextPerf]_vars

-----------------------------------------------------------------------------
(* simulate_portfolios *)

num_assets == Len(returns)

\* np.zeros((3, num_simulations)), as num_simulations columns
Zeros(n) == [c \in 1..n |-> <<Fin(Zero), Fin(Zero), Fin(Zero)>>]

\* weights / np.sum(weights)
Normalise(draw) ==
    LET total == RatSum(draw)
    IN  [a \in 1..Len(draw) |-> NpDivide(draw[a], total)]

\* lines 37-39
SimulateEnter ==
    /\ pc = "simulate_call"
    /\ results' = Zeros(num_simulations)
    /\ weights_record' = <<>>
    /\ i' = 0
    /\ pc' = "simulate_loop"
    /\ UNCHANGED <<tickers, columns, returns, num_simulations, weights, outcome,
                   solver_args, solve_calls, result, optimal_weights, report>>

\* a loop that writes every triple to the first column
StoreColumn_FirstColumn(res, idx, triple) == [res EXCEPT ![1] = triple]

\* the column a loop iteration writes: results[0, i], results[1, i], results[2, i]
StoreColumn(res, idx, triple) == [res EXCEPT ![idx + 1] = triple]

\* one iteration of the loop, lines 41-49
SimulateIter ==
    /\ pc = "simulate_loop"
    /\ i < num_simulations
    /\ \E draw \in Draws(num_assets) :
          LET w == Normalise(draw)
              perf == portfolio_performance(w, returns)
          IN  /\ weights' = w
              /\ results' = StoreColumn(results, i, perf.value)
              /\ weights_record' = Append(weights_record, w)
    /\ i' = i + 1
    /\ UNCHANGED <<pc, tickers, columns, returns, num_simulations, outcome,
                   solver_args, solve_calls, result, optimal_weights, report>>

\* line 51
SimulateReturn ==
    /\ pc = "simulate_loop"
    /\ i >= num_simulations
    /\ outcome' = Return(<<results, weights_record>>)
    /\ pc' = "simulated"
    /\ UNCHANGED <<tickers, columns, returns, num_simulations, i, weights, results,
                   weights_record, solver_args, solve_calls, result,
                   optimal_weights, report>>

InitSim ==
    /\ pc = "simulate_call"
    /\ tickers \in TickerLists
    /\ columns = tickers
    /\ returns \in ReturnTables(Len(tickers))
    /\ Blank
    /\ num_simulations \in 0..MaxSims

NextSim == SimulateEnter \/ SimulateIter \/ SimulateReturn

SpecSim == InitSim /\ [][NextSim]_vars

-----------------------------------------------------------------------------
(* get_optimal_portfolio *)

\* an objective that forgets the minus sign
negative_sharpe_Unnegated(w, tbl) == portfolio_performance(w, tbl).value[3]

\* lines 60-62
negative_sharpe(w, tbl) == Negate(portfolio_performance(w, tbl).value[3])

\* num_assets * [1 / num_assets]
initial_weights(N) == [a \in 1..N |-> Fin(Rat(1, N))]

\* tuple((0, 1) for _ in range(num_assets))
bounds(N) == [a \in 1..N |-> <<0, 1>>]

\* {'type': 'eq', 'fun': lambda x: np.sum(x) - 1}
constraints == [type |-> "eq", fun |-> "sum(x) - 1"]

\* the value of the constraint function at x
ConstraintFun(x) == RatSub(RatSum([a \in 1..Len(x) |-> x[a].q]), One)

\* x satisfies the constraint and the bounds handed to minimize
Feasible(x, args) ==
    /\ ConstraintFun(x).n = 0
    /\ \A a \in 1..Len(x) :
          /\ x[a].q.n >= args.bounds[a][1] * x[a].q.d
          /\ x[a].q.n <= args.bounds[a][2] * x[a].q.d

\* points SLSQP may stop at: the start, the vertices of the simplex, and
\* (h = 0) the zero vector, which is infeasible
SolverPoints(args) ==
    {args.x0} \cup
    { [a \in 1..Len(args.x0) |-> Fin(IF a = h THEN One ELSE Zero)] :
        h \in 0..Len(args.x0) }

\* what minimize may return: a point, the objective there, and the
\* convergence flag, which is set only at a feasible point
SolverResults(args, tbl) ==
    UNION { { [x |-> x, success |-> ok, fun |-> negative_sharpe(x, tbl)] :
                ok \in { b \in BOOLEAN : b => Feasible(x, args) } } :
            x \in SolverPoints(args) }

\* lines 58-66
GetOptimalEnter ==
    /\ pc = "simulated"
    /\ solver_args' = [x0 |-> initial_weights(num_assets), method |-> "SLSQP",
                       bounds |-> bounds(num_assets), constraints |-> constraints]
    /\ pc' = "minimize"
    /\ UNCHANGED <<tickers, columns, returns, num_simulations, i, weights, results,
                   weights_record, outcome, solve_calls, result, optimal_weights,
                   report>>

\* a get_optimal_portfolio that solves again when the solve did not converge
AfterMinimize_Retry(res) == IF res.success THEN "report" ELSE "minimize"

\* where the flow goes once minimize has returned res: line 73 returns, and
\* __main__ goes on to its report
AfterMinimize(res) == "report"

\* the fields of the OptimizeResult that get_optimal_portfolio hands back:
\* return result.x
Returned(res) == [x |-> res.x]

\* lines 68-73; __main__ binds the returned array to optimal_weights, line 107
Minimize ==
    /\ pc = "minimize"
    /\ \E res \in SolverResults(solver_args, returns) :
          /\ result' = res
          /\ optimal_weights' = Returned(res).x
          /\ outcome' = Return(Returned(res))
          /\ pc' = AfterMinimize(res)
    /\ solve_calls' = solve_calls + 1
    /\ UNCHANGED <<tickers, columns, returns, num_simulations, i, weights, results,
                   weights_record, solver_args, report>>

-----------------------------------------------------------------------------
(* __main__ *)

\* get_data, lines 9-17 and 105: the provider fixes the table and its column
\* order; simulate_portfolios is then called with its default num_simulations
GetData ==
    /\ pc = "main"
    /\ columns' \in ColumnOrders(tickers)
    /\ returns' \in { t \in ReturnTables(Len(tickers)) : Rows(t) = MaxRows }
    /\ num_simulations' = MainSims
    /\ pc' = "simulate_call"
    /\ UNCHANGED <<tickers, i, weights, results, weights_record, outcome,
                   solver_args, solve_calls, result, optimal_weights, report>>

\* zip(tickers, optimal_weights), lines 112-113
ReportLines(tks, w) ==
    [a \in 1..(IF Len(tks) < Len(w) THEN Len(tks) ELSE Len(w)) |->
        [ticker |-> tks[a], weight |-> w[a]]]

\* lines 109-116
Report ==
    /\ pc = "report"
    /\ weights' = optimal_weights
    /\ report' = [report EXCEPT
                     !.opt = portfolio_performance(optimal_weights, returns).value,
                     !.lines = ReportLines(tickers, optimal_weights)]
    /\ pc' = "plot"
    /\ UNCHANGED <<tickers, columns, returns, num_simulations, i, results,
                   weights_record, outcome, solver_args, solve_calls, result,
                   optimal_weights>>

\* plot_efficient_frontier, lines 76-97 and 118: the label of the red star
PlotEfficientFrontier ==
    /\ pc = "plot"
    /\ weights' = optimal_weights
    /\ report' = [report EXCEPT
                     !.label = portfolio_performance(optimal_weights, returns).value]
    /\ pc' = "done"
    /\ UNCHANGED <<tickers, columns, returns, num_simulations, i, results,
                   weights_record, outcome, solver_args, solve_calls, result,
                   optimal_weights>>

Init ==
    /\ pc = "main"
    /\ tickers = Tickers
    /\ columns = <<>>
    /\ returns = <<>>
    /\ num_simulations = 0
    /\ Blank

Next ==
    \/ GetData
    \/ SimulateEnter
    \/ SimulateIter
    \/ SimulateReturn
    \/ GetOptimalEnter
    \/ Minimize
    \/ Report
    \/ PlotEfficientFrontier

Spec == Init /\ [][Next]_vars

-----------------------------------------------------------------------------
(* Properties *)

InUnitInterval(v) == v.k = "fin" /\ v.q.n >= 0 /\ v.q.n <= v.q.d

SumsToOne(w) == AllFinite(w) /\ RatSum([a \in 1..Len(w) |-> w[a].q]) = One

\* a weight vector of the table's width, components in [0,1], summing to 1
ValidWeights(w, tbl) ==
    /\ Len(w) = Len(tbl)
    /\ \A a \in 1..Len(w) : InUnitInterval(w[a])
    /\ SumsToOne(w)

\* sum((x - mean)^2) / (T - 1) of one column, for at least 2 rows
SampleVariance(col) ==
    LET m == Mean(col)
        dev == [t \in 1..Len(col) |->
                  RatMul(RatSub(RatMul([n |-> col[t], d |-> 1], Unit), m),
                         RatSub(RatMul([n |-> col[t], d |-> 1], Unit), m))]
    IN  RatDiv(RatSum(dev), [n |-> Len(col) - 1, d |-> 1])

PositiveVariance(tbl) ==
    /\ Rows(tbl) >= 2
    /\ \A a \in 1..Len(tbl) : SampleVariance(tbl[a]).n > 0

FiniteNonZeroVol(triple) ==
    /\ \A c \in 1..3 : IsFinite(triple[c])
    /\ triple[2].q.n # 0

\* C1: portfolio_performance on non-negative weights summing to 1 and a table
\* of at least 2 rows whose assets have positive variance returns a finite
\* triple with a volatility that is not 0.
C1_FiniteTriple ==
    (pc = "called" /\ ValidWeights(weights, returns) /\ PositiveVariance(returns))
        => (outcome.kind = "return" /\ FiniteNonZeroVol(outcome.value))

\* C2: every weight vector simulate_portfolios records sums to 1 and has
\* every component in [0,1].
C2_NormalisedWeights ==
    \A c \in 1..Len(weights_record) :
        /\ SumsToOne(weights_record[c])
        /\ \A a \in 1..Len(weights_record[c]) : InUnitInterval(weights_record[c][a])

\* C3: simulate_portfolios with num_simulations = 0 ends in an error, never
\* in a returned empty result.
C3_ZeroSimulationsRejected ==
    (pc = "simulated" /\ num_simulations = 0) => outcome.kind = "raise"

\* C4: portfolio_performance on an invalid weight vector (wrong length, a
\* component outside [0,1], a sum other than 1) raises and returns no triple.
C4_InvalidWeightsRejected ==
    (pc = "called" /\ ~ValidWeights(weights, returns)) => outcome.kind = "raise"

PostSolve == {"report", "plot", "done"}

\* C5: after a solve that did not converge, what get_optimal_portfolio
\* returned to its caller carries the solver's convergence flag.
C5_ConvergenceFlagSurfaced ==
    (pc \in PostSolve /\ ~result.success)
        => ("success" \in DOMAIN outcome.value /\ outcome.value.success = FALSE)

ZeroColumn == <<Fin(Zero), Fin(Zero), Fin(Zero)>>

C6_Filled ==
    (pc \in {"simulate_loop", "simulated"} /\ num_simulations >= 1) =>
        /\ Len(results) = num_simulations
        /\ Len(weights_record) = i
        /\ i <= num_simulations
        /\ \A c \in 1..i :
              results[c] = portfolio_performance(weights_record[c], returns).value
        /\ \A c \in (i + 1)..num_simulations : results[c] = ZeroColumn
        /\ pc = "simulated" =>
              /\ i = num_simulations
              /\ outcome = Return(<<results, weights_record>>)

C6_Kept ==
    pc = "simulate_loop" =>
        \A c \in 1..i : /\ results'[c] = results[c]
                         /\ weights_record'[c] = weights_record[c]

\* C6: for num_simulations = n >= 1, after k iterations exactly the first k
\* columns and k weight entries are filled, column c being the triple of
\* portfolio_performance for weights_record[c]; entries filled earlier never
\* change; the call returns n columns and n entries.
C6_SimulationResult == [](C6_Filled) /\ [][C6_Kept]_vars

C6_Witness ==
    /\ pc = "simulated"
    /\ num_simulations = 2
    /\ Len(weights_record) = 2
    /\ weights_record[1] # weights_record[2]
    /\ results[1] # results[2]
    /\ IsFinite(results[1][3])

C7_Agree ==
    /\ pc \in {"plot", "done"} =>
          /\ report.opt[3] = Negate(result.fun)
          /\ weights = optimal_weights
    /\ pc = "done" => report.label = report.opt
    /\ pc = "done" =>
          \A c \in 1..Len(weights_record) :
              results[c] = portfolio_performance(weights_record[c], returns).value

C7_Untouched ==
    /\ pc # "main" => returns' = returns
    /\ pc \in PostSolve => optimal_weights' = optimal_weights

C8_SingleAsset ==
    (num_assets = 1 /\ pc \in {"simulate_loop", "simulated"}) =>
        /\ \A c \in 1..Len(weights_record) : weights_record[c] = <<Fin(One)>>
        /\ initial_weights(num_assets) = <<Fin(One)>>
        /\ Rows(returns) >= 2 =>
              portfolio_performance(<<Fin(One)>>, returns).value[2] =
                  [k |-> "sqrt", q |-> RatMul(Annual, SampleVariance(returns[1]))]

\* C9: get_optimal_portfolio calls minimize exactly once, from the uniform
\* vector 1/N, with the constraint sum(w) = 1 and the bounds [0,1], and returns
\* that attempt's point, converged or not, without raising.
C9_SingleSolve ==
    /\ pc \in {"main", "simulate_call", "simulate_loop", "simulated", "minimize"}
          => solve_calls = 0
    /\ pc \in {"minimize"} \cup PostSolve =>
          /\ Len(solver_args.x0) = num_assets
          /\ \A a \in 1..num_assets :
                /\ solver_args.x0[a] = Fin([n |-> 1, d |-> num_assets])
                /\ solver_args.bounds[a] = <<0, 1>>
          /\ Len(solver_args.bounds) = num_assets
          /\ solver_args.constraints = [type |-> "eq", fun |-> "sum(x) - 1"]
    /\ pc \in PostSolve => solve_calls = 1
    /\ pc \in PostSolve =>
          /\ optimal_weights = result.x
          /\ outcome.kind = "return"
          /\ outcome.value.x = result.x

C9_Witness ==
    /\ pc = "done"
    /\ ~result.success
    /\ solve_calls = 1
    /\ optimal_weights # solver_args.x0

\* C10: the weight the report prints next to a ticker is the weight of that
\* ticker's own column: line a of the report names the ticker of column a.
C10_ReportOwnColumn ==
    pc = "done" =>
        \A a \in 1..Len(report.lines) :
            /\ report.lines[a].weight = optimal_weights[a]
            /\ report.lines[a].ticker = columns[a]
====
